---- MODULE Spec2Model ----
(***************************************************************************)
(* Satya Drishti: the analysis service (analyzeContent, with its mocked    *)
(* forensic check, score fusion, escalation and rebuttal call), the file   *)
(* upload component and the App's scan handler.                            *)
(*                                                                         *)
(* One step of the model is one task of the JavaScript event loop: a UI    *)
(* event, or the settling of an outstanding asynchronous operation,        *)
(* together with every continuation (microtask) that settling releases.    *)
(***************************************************************************)
EXTENDS Integers, Sequences, FiniteSets, TLC

VARIABLES
    apiKey,       \* process.env.API_KEY is set
    file,         \* App state: the selected file, Null or <<f>>
    caption,      \* App state: the caption text
    uploadError,  \* FileUpload state: its error line, Null or <<message>>
    analysis,     \* App state: AnalysisState {isLoading, error, result}
    call          \* the invocation of analyzeContent: its locals and promises

vars == <<apiKey, file, caption, uploadError, analysis, call>>

(***************************************************************************)
(* Values.  null / undefined / an absent property is the empty tuple, a    *)
(* present value v is <<v>>.                                               *)
(***************************************************************************)
Null == <<>>
Some(v) == <<v>>
Val(o) == o[1]

\* JavaScript truthiness of an optional string: undefined and "" are falsy.
Truthy(o) == o # Null /\ Val(o) # ""

\* String.prototype.startsWith
StartsWith(s, p) == Len(s) >= Len(p) /\ SubSeq(s, 1, Len(p)) = p

RECURSIVE TrimStart(_)
TrimStart(s) ==
    IF Len(s) > 0 /\ SubSeq(s, 1, 1) = " "
    THEN TrimStart(SubSeq(s, 2, Len(s)))
    ELSE s

RECURSIVE TrimEnd(_)
TrimEnd(s) ==
    IF Len(s) > 0 /\ SubSeq(s, Len(s), Len(s)) = " "
    THEN TrimEnd(SubSeq(s, 1, Len(s) - 1))
    ELSE s

\* String.prototype.trim
Trim(s) == TrimEnd(TrimStart(s))

(***************************************************************************)
(* Literals of the source.                                                 *)
(***************************************************************************)
MAX_FILE_SIZE == 20 * 1024 * 1024

ERR_FILE_SIZE == "File size exceeds 20MB limit."
ERR_FILE_TYPE == "Only image and video files are supported."

ERR_API_KEY == "API Key is missing."
ERR_NO_INPUT == "Please provide at least a file or a caption to analyze."
ERR_NO_TEXT == "No response text received from Gemini."
ERR_ANALYSIS_FAILED == "Failed to analyze content. The model may have been blocked or the input format is invalid."
ERR_UNEXPECTED == "An unexpected error occurred during analysis."

\* what the collaborators' own failures carry (any text other than the above)
ERR_TRANSPORT == "fetch failed"
ERR_SYNTAX == "Unexpected token in JSON"

WARN_ARTIFACTS == "Potential AI Artifacts Detected"
REBUTTAL_UNAVAILABLE == "Rebuttal generation unavailable."
REBUTTAL_FAILED == "Could not generate rebuttal at this time."
FALLBACK_CONTEXT == "The uploaded media content."

RISK_LEVELS == {"SAFE", "CAUTION", "SUSPICIOUS", "DANGEROUS", "CRITICAL"}

(***************************************************************************)
(* Inputs.                                                                 *)
(***************************************************************************)
\* the steps into which the unit interval of Math.random() is divided
RandomSteps == 10

\* files the user may drop or pick: at the limit, small, over the limit, and
\* of types that are neither image nor video
CandidateFiles ==
    { [size |-> MAX_FILE_SIZE, type |-> "image/png"],
      [size |-> 1024, type |-> "video/mp4"],
      [size |-> MAX_FILE_SIZE + 1, type |-> "image/png"],
      [size |-> 1024, type |-> "application/pdf"],
      [size |-> 1024, type |-> ""] }

Captions == {"", " ", "Share now!"}

\* riskScore values the Content Analyzer may return
RiskScores == {0, 80, 85, 86, 90, 100}

\* the remaining content of an assessment: a bare one and a full one
Contents ==
    { [summary |-> "", narrativeStrategy |-> Null,
       emotionalTriggers |-> Null, flags |-> <<>>],
      [summary |-> "Fear appeal with an unsourced claim.",
       narrativeStrategy |-> Some("To demoralize the opposition"),
       emotionalTriggers |-> Some(<<"fear", "outrage">>),
       flags |-> << [technique |-> "Appeal to fear",
                     description |-> "Before it's deleted",
                     severity |-> "HIGH", location |-> Null] >>] }

\* the JSON documents that conform to RESPONSE_SCHEMA, as parsed
AnalyzerBodies ==
    { [riskScore |-> s, riskLevel |-> l, summary |-> c.summary,
       narrativeStrategy |-> c.narrativeStrategy,
       emotionalTriggers |-> c.emotionalTriggers, flags |-> c.flags] :
      s \in RiskScores, l \in RISK_LEVELS, c \in Contents }

\* what generateContent resolves with: no text, text that is not JSON, or JSON
NoTextResponse == [text |-> FALSE, json |-> FALSE, body |-> Null]
MalformedResponse == [text |-> TRUE, json |-> FALSE, body |-> Null]
JsonResponse(b) == [text |-> TRUE, json |-> TRUE, body |-> Some(b)]

GeminiResponses ==
    {NoTextResponse, MalformedResponse} \cup {JsonResponse(b) : b \in AnalyzerBodies}

\* response.text of the rebuttal call: undefined, empty, or a text
RebuttalTexts == {Null, Some(""), Some("Three sentences of verified facts.")}

(***************************************************************************)
(* Promises.                                                               *)
(***************************************************************************)
NoTask == [st |-> "none", val |-> Null]
Pending == [st |-> "pending", val |-> Null]
Fulfilled(v) == [st |-> "fulfilled", val |-> Some(v)]
Rejected(e) == [st |-> "rejected", val |-> Some(e)]

\* a thrown value; a FileReader error event has no message
Err(m) == [message |-> Some(m)]
ErrorEvent == [message |-> Null]

NoOutcome == [kind |-> "none", value |-> Null]
Returned(r) == [kind |-> "returned", value |-> Some(r)]
Thrown(e) == [kind |-> "thrown", value |-> Some(e)]

IdleCall ==
    [pc |-> "idle", caller |-> "none", file |-> Null, caption |-> "",
     gemini |-> NoTask, deepfake |-> NoTask, rebuttal |-> NoTask,
     context |-> Null, result |-> Null, outcome |-> NoOutcome]

(***************************************************************************)
(* FileUpload.tsx                                                          *)
(***************************************************************************)
\* variant: the limit is taken in bits, not bytes
TooLarge_WrongUnit(f) == f.size > MAX_FILE_SIZE * 8


TooLarge(f) == f.size > MAX_FILE_SIZE

SupportedType(f) == StartsWith(f.type, "image/") \/ StartsWith(f.type, "video/")

\* validateAndSetFile: the first failing check sets the error and returns
validateAndSetFile(f) ==
    IF TooLarge(f)
    THEN /\ uploadError' = Some(ERR_FILE_SIZE)
         /\ UNCHANGED file
    ELSE IF ~SupportedType(f)
    THEN /\ uploadError' = Some(ERR_FILE_TYPE)
         /\ UNCHANGED file
    ELSE /\ uploadError' = Null
         /\ file' = Some(f)

handleDrop ==
    \E f \in CandidateFiles :
        /\ validateAndSetFile(f)
        /\ UNCHANGED <<apiKey, caption, analysis, call>>

handleFileInput ==
    \E f \in CandidateFiles :
        /\ validateAndSetFile(f)
        /\ UNCHANGED <<apiKey, caption, analysis, call>>

\* the clear button is rendered only while a file is selected
clearFile ==
    /\ file # Null
    /\ file' = Null
    /\ uploadError' = Null
    /\ UNCHANGED <<apiKey, caption, analysis, call>>

(***************************************************************************)
(* The analysis service: pure parts.                                       *)
(***************************************************************************)
\* checkDeepfake, with Math.random() = r / RandomSteps
checkDeepfake(r) == ((r * (99 - 50 + 1)) \div RandomSteps) + 50

\* variant: the fraction is truncated
MathRound_Truncating(num, den) == num \div den

\* Math.round of the fraction num / den (den > 0): floor(x + 1/2)
MathRound(num, den) == (2 * num + den) \div (2 * den)

\* variant: the caption is tested without trim()
HasCaptionPart_Untrimmed(c) == c # ""

\* the parts of the analyzer request
HasCaptionPart(c) == Trim(c) # ""

Parts(f, c) ==
    (IF HasCaptionPart(c) THEN << [kind |-> "text"] >> ELSE <<>>)
    \o (IF f # Null THEN << [kind |-> "inlineData"] >> ELSE <<>>)

\* variant: the optional properties of the document are dropped
Parsed_RequiredOnly(b) ==
    [riskScore |-> b.riskScore, riskLevel |-> b.riskLevel, summary |-> b.summary,
     narrativeStrategy |-> Null, emotionalTriggers |-> Null, flags |-> b.flags,
     fusionScore |-> Null, visualIntegrityScore |-> Null,
     visualIntegrityWarning |-> Null, rebuttal |-> Null]

\* JSON.parse(...) as AnalysisResult: the properties the document lacks are undefined
Parsed(b) ==
    [riskScore |-> b.riskScore, riskLevel |-> b.riskLevel, summary |-> b.summary,
     narrativeStrategy |-> b.narrativeStrategy,
     emotionalTriggers |-> b.emotionalTriggers, flags |-> b.flags,
     fusionScore |-> Null, visualIntegrityScore |-> Null,
     visualIntegrityWarning |-> Null, rebuttal |-> Null]

\* variant: a missing integrity score is averaged in as full integrity
FusionScore_AlwaysAveraged(riskScore, deepfakeScore) ==
    LET manipulationRisk == IF deepfakeScore # Null THEN 100 - Val(deepfakeScore) ELSE 0
    IN  MathRound(riskScore + manipulationRisk, 2)

\* the fusion score; deepfakeScore is Null when no deepfake analysis ran
FusionScore(riskScore, deepfakeScore) ==
    IF deepfakeScore # Null
    THEN LET manipulationRisk == 100 - Val(deepfakeScore)
         IN  MathRound(riskScore + manipulationRisk, 2)
    ELSE riskScore

\* variant: the threshold itself counts as low
LowIntegrity_Inclusive(score) == score <= 70


LowIntegrity(score) == score < 70

\* variant: either condition alone raises the alert
Escalates_Either(score, riskScore) == score < 70 \/ riskScore > 85

\* the critical alert condition
Escalates(score, riskScore) == score < 70 /\ riskScore > 85

\* the fusion block: score, integrity fields, escalation
Fuse(result, deepfakeScore) ==
    LET r1 == IF deepfakeScore # Null
              THEN [result EXCEPT
                      !.visualIntegrityScore = deepfakeScore,
                      !.visualIntegrityWarning =
                          IF LowIntegrity(Val(deepfakeScore))
                          THEN Some(WARN_ARTIFACTS) ELSE @,
                      !.riskLevel =
                          IF Escalates(Val(deepfakeScore), result.riskScore)
                          THEN "CRITICAL" ELSE @]
              ELSE result
    IN  [r1 EXCEPT !.fusionScore = Some(FusionScore(result.riskScore, deepfakeScore))]

\* variant: DANGEROUS reports get a rebuttal too
NeedsRebuttal_FromDangerous(riskLevel) == riskLevel \in {"DANGEROUS", "CRITICAL"}

\* variant: the level is compared with a literal in another case
NeedsRebuttal_CaseSlip(riskLevel) == riskLevel = "Critical"


NeedsRebuttal(riskLevel) == riskLevel = "CRITICAL"

\* variant: the caption is preferred to the summary
RebuttalContext_CaptionFirst(summary, c) ==
    IF c # "" THEN c
    ELSE IF summary # "" THEN summary
    ELSE FALLBACK_CONTEXT

\* result.summary || caption || "The uploaded media content."
RebuttalContext(summary, c) ==
    IF summary # "" THEN summary
    ELSE IF c # "" THEN c
    ELSE FALLBACK_CONTEXT

\* variant: no try/catch around the call
generateRebuttal_Uncaught(task) ==
    IF task.st = "rejected"
    THEN Thrown(Val(task.val))
    ELSE IF Truthy(Val(task.val))
         THEN Returned(Val(Val(task.val)))
         ELSE Returned(REBUTTAL_UNAVAILABLE)

\* generateRebuttal, given how its generateContent call settled
generateRebuttal(task) ==
    IF task.st = "rejected"
    THEN Returned(REBUTTAL_FAILED)
    ELSE IF Truthy(Val(task.val))
         THEN Returned(Val(Val(task.val)))
         ELSE Returned(REBUTTAL_UNAVAILABLE)

\* variant: the catch block rethrows what it caught
CatchAnalysis_Rethrow(error) == error

\* the catch block of analyzeContent: log, throw the generic error
CatchAnalysis(error) == Err(ERR_ANALYSIS_FAILED)

\* variant: the deepfake promise is not pushed to the tasks
Tasks_AnalyzerOnly(c) == << c.gemini >>

\* the promises Promise.all waits for
Tasks(c) ==
    << c.gemini >> \o (IF c.file # Null THEN << c.deepfake >> ELSE <<>>)

\* variant: a race, the first fulfilled promise resolves the join
JoinReady_Race(tasks) == \E i \in 1..Len(tasks) : tasks[i].st = "fulfilled"

\* Promise.all resolves when every promise is fulfilled
JoinReady(tasks) == \A i \in 1..Len(tasks) : tasks[i].st = "fulfilled"

JoinRejected(tasks) == \E i \in 1..Len(tasks) : tasks[i].st = "rejected"

FirstRejection(tasks) ==
    Val(tasks[CHOOSE i \in 1..Len(tasks) : tasks[i].st = "rejected"].val)

(***************************************************************************)
(* The analysis service: analyzeContent, as the next value of its frame.   *)
(***************************************************************************)
Done(c, outcome) == [c EXCEPT !.pc = "done", !.outcome = outcome]

\* variant: the deepfake check is started for every request
Launch_AlwaysChecks(c) ==
    [c EXCEPT !.pc = "awaitAll", !.gemini = Pending, !.deepfake = Pending]

\* the two primary calls are started
Launch(c) ==
    [c EXCEPT !.pc = "awaitAll",
              !.gemini = Pending,
              !.deepfake = IF c.file # Null THEN Pending ELSE NoTask]

\* the parts check, then the launch
CheckAndLaunch(c) ==
    IF Len(Parts(c.file, c.caption)) = 0
    THEN Done(c, Thrown(Err(ERR_NO_INPUT)))
    ELSE Launch(c)

\* from the call to the first await
Invoke(caller, f, c) ==
    LET frame == [IdleCall EXCEPT !.caller = caller, !.file = f, !.caption = c]
    IN  IF ~apiKey
        THEN Done(frame, Thrown(Err(ERR_API_KEY)))
        ELSE IF f # Null
             THEN [frame EXCEPT !.pc = "reading"]
             ELSE CheckAndLaunch(frame)

\* after Promise.all resolved: response check, parse, fusion, rebuttal decision
AfterJoin(c) ==
    LET geminiResponse == c.gemini.val
        deepfakeScore == IF c.file # Null THEN c.deepfake.val ELSE Null
    IN  IF geminiResponse = Null
        THEN \* reading .text of a result that is not there is a TypeError
             Done(c, Thrown(CatchAnalysis(Err("TypeError"))))
        ELSE IF ~Val(geminiResponse).text
        THEN Done(c, Thrown(CatchAnalysis(Err(ERR_NO_TEXT))))
        ELSE IF ~Val(geminiResponse).json
        THEN Done(c, Thrown(CatchAnalysis(Err(ERR_SYNTAX))))
        ELSE LET result == Fuse(Parsed(Val(Val(geminiResponse).body)), deepfakeScore)
             IN  IF NeedsRebuttal(result.riskLevel)
                 THEN [c EXCEPT !.pc = "awaitRebuttal",
                                !.result = Some(result),
                                !.context = Some(RebuttalContext(result.summary, c.caption)),
                                !.rebuttal = Pending]
                 ELSE Done([c EXCEPT !.result = Some(result)], Returned(result))

\* a primary promise has settled: Promise.all rejects, resolves or keeps waiting
Join(c) ==
    IF JoinRejected(Tasks(c))
    THEN Done(c, Thrown(CatchAnalysis(FirstRejection(Tasks(c)))))
    ELSE IF JoinReady(Tasks(c))
         THEN AfterJoin(c)
         ELSE c

\* the rebuttal call has settled
AfterRebuttal(c) ==
    LET g == generateRebuttal(c.rebuttal)
    IN  IF g.kind = "thrown"
        THEN Done(c, Thrown(CatchAnalysis(Val(g.value))))
        ELSE LET result == [Val(c.result) EXCEPT !.rebuttal = g.value]
             IN  Done([c EXCEPT !.result = Some(result)], Returned(result))

(***************************************************************************)
(* App: the scan handler and the rest of the UI.                           *)
(***************************************************************************)
Loading == [isLoading |-> TRUE, error |-> Null, result |-> Null]

\* handleAnalyze after its await: the try and the catch
Settle(outcome) ==
    IF outcome.kind = "returned"
    THEN [isLoading |-> FALSE, error |-> Null, result |-> outcome.value]
    ELSE [isLoading |-> FALSE,
          error |-> IF Truthy(Val(outcome.value).message)
                    THEN Val(outcome.value).message
                    ELSE Some(ERR_UNEXPECTED),
          result |-> Null]

\* the frame moves to c; a settled promise resumes the handler that awaits it
Resume(c) ==
    /\ call' = c
    /\ analysis' = IF c.caller = "ui" /\ c.pc = "done"
                   THEN Settle(c.outcome)
                   ELSE analysis

\* variant: the scan button stays enabled while an analysis is loading
ButtonDisabled_WhileIdleOnly == file = Null /\ Trim(caption) = ""


ButtonDisabled == analysis.isLoading \/ (file = Null /\ Trim(caption) = "")

handleAnalyze ==
    /\ ~ButtonDisabled
    /\ ~(file = Null /\ Trim(caption) = "")
    /\ LET c == Invoke("ui", file, caption)
       IN  /\ call' = c
           /\ analysis' = IF c.pc = "done" THEN Settle(c.outcome) ELSE Loading
    /\ UNCHANGED <<apiKey, file, caption, uploadError>>

setCaption ==
    \E c \in Captions :
        /\ caption' = c
        /\ UNCHANGED <<apiKey, file, uploadError, analysis, call>>

\* the Dismiss button of the error panel
dismissError ==
    /\ ~analysis.isLoading
    /\ analysis.error # Null
    /\ analysis' = [analysis EXCEPT !.error = Null]
    /\ UNCHANGED <<apiKey, file, caption, uploadError, call>>

(***************************************************************************)
(* The asynchronous operations settle.                                     *)
(***************************************************************************)
fileReadLoaded ==
    /\ call.pc = "reading"
    /\ Resume(CheckAndLaunch(call))
    /\ UNCHANGED <<apiKey, file, caption, uploadError>>

fileReadFailed ==
    /\ call.pc = "reading"
    /\ Resume(Done(call, Thrown(ErrorEvent)))
    /\ UNCHANGED <<apiKey, file, caption, uploadError>>

geminiFulfilled ==
    /\ call.pc = "awaitAll"
    /\ call.gemini.st = "pending"
    /\ \E r \in GeminiResponses :
           Resume(Join([call EXCEPT !.gemini = Fulfilled(r)]))
    /\ UNCHANGED <<apiKey, file, caption, uploadError>>

geminiRejected ==
    /\ call.pc = "awaitAll"
    /\ call.gemini.st = "pending"
    /\ Resume(Join([call EXCEPT !.gemini = Rejected(Err(ERR_TRANSPORT))]))
    /\ UNCHANGED <<apiKey, file, caption, uploadError>>

deepfakeFulfilled ==
    /\ call.pc = "awaitAll"
    /\ call.deepfake.st = "pending"
    /\ \E r \in 0..(RandomSteps - 1) :
           Resume(Join([call EXCEPT !.deepfake = Fulfilled(checkDeepfake(r))]))
    /\ UNCHANGED <<apiKey, file, caption, uploadError>>

rebuttalFulfilled ==
    /\ call.pc = "awaitRebuttal"
    /\ \E t \in RebuttalTexts :
           Resume(AfterRebuttal([call EXCEPT !.rebuttal = Fulfilled(t)]))
    /\ UNCHANGED <<apiKey, file, caption, uploadError>>

rebuttalRejected ==
    /\ call.pc = "awaitRebuttal"
    /\ Resume(AfterRebuttal([call EXCEPT !.rebuttal = Rejected(Err(ERR_TRANSPORT))]))
    /\ UNCHANGED <<apiKey, file, caption, uploadError>>

\* analyzeContent called by any other caller, with any arguments
analyzeContent ==
    /\ call.pc \in {"idle", "done"}
    /\ \E f \in {Null} \cup {Some(x) : x \in CandidateFiles}, c \in Captions :
           call' = Invoke("api", f, c)
    /\ UNCHANGED <<apiKey, file, caption, uploadError, analysis>>

(***************************************************************************)
(* Specifications.                                                         *)
(***************************************************************************)
Init ==
    /\ apiKey \in BOOLEAN
    /\ file = Null
    /\ caption = ""
    /\ uploadError = Null
    /\ analysis = [isLoading |-> FALSE, error |-> Null, result |-> Null]
    /\ call = IdleCall

Settling ==
    \/ fileReadLoaded
    \/ fileReadFailed
    \/ geminiFulfilled
    \/ geminiRejected
    \/ deepfakeFulfilled
    \/ rebuttalFulfilled
    \/ rebuttalRejected

\* the application: the UI is the only caller of the service
Next ==
    \/ handleDrop
    \/ handleFileInput
    \/ clearFile
    \/ setCaption
    \/ handleAnalyze
    \/ dismissError
    \/ Settling

Spec == Init /\ [][Next]_vars

\* the service on its own: analyzeContent under every argument
NextService ==
    \/ analyzeContent
    \/ Settling

SpecService == Init /\ [][NextService]_vars

(***************************************************************************)
(* Views of the state used by the properties.                              *)
(***************************************************************************)
\* analyzeContent has returned a report
HasReport == call.pc = "done" /\ call.outcome.kind = "returned"
Report == Val(call.outcome.value)

\* the Content Analyzer answered with a document of the schema
HasAssessment ==
    /\ call.gemini.st = "fulfilled"
    /\ Val(call.gemini.val).text
    /\ Val(call.gemini.val).json
Assessment == Val(Val(call.gemini.val).body)

\* the Authenticity Checker answered
HasIntegrity == call.deepfake.st = "fulfilled"
IntegrityScore == Val(call.deepfake.val)

\* the fusion block has run: result holds the fused report
Fused == call.result # Null
FusedResult == Val(call.result)

RebuttalRequested == call.rebuttal.st # "none"

(***************************************************************************)
(* Properties.                                                             *)
(***************************************************************************)

\* C1: with an authenticity score, the report's riskLevel is CRITICAL when
\* integrityScore < 70 and contextualRiskScore > 85, whatever the analyzer's
\* level; in every other case (integrity >= 70, or score <= 85, or no
\* authenticity score) it is the level the Content Analyzer returned.
C1_EscalationIsConjunctive ==
    (HasReport /\ HasAssessment) =>
        IF HasIntegrity /\ IntegrityScore < 70 /\ Assessment.riskScore > 85
        THEN Report.riskLevel = "CRITICAL"
        ELSE Report.riskLevel = Assessment.riskLevel

\* a SAFE assessment with score 90 and integrity 60 is reported CRITICAL
C1_Witness ==
    /\ HasReport /\ HasAssessment /\ HasIntegrity
    /\ IntegrityScore = 60
    /\ Assessment.riskScore = 90
    /\ Assessment.riskLevel = "SAFE"
    /\ Report.riskLevel = "CRITICAL"

\* the fusion score of the source is the half-up rounding of the mean, on 0..100
FusionScoreRoundsHalfUp ==
    \A c \in 0..100, i \in 0..100 :
        LET n == c + (100 - i)
            f == FusionScore(c, Some(i))
        IN  2 * f \in {n, n + 1}

\* C2: with an authenticity score, fusionScore is
\* (contextualRiskScore + (100 - integrityScore)) / 2 rounded to the nearest
\* integer, halves up; (90, 60) gives 65, (90, 75) gives 58, (80, 50) gives 65.
C2_FusionScoreRounded ==
    /\ FusionScoreRoundsHalfUp
    /\ (HasReport /\ HasAssessment /\ HasIntegrity) =>
          LET c == Assessment.riskScore
              i == IntegrityScore
              n == c + (100 - i)
              f == Val(Report.fusionScore)
          IN  /\ Report.fusionScore # Null
              /\ 2 * f \in {n, n + 1}
              /\ (c = 90 /\ i = 60) => f = 65
              /\ (c = 90 /\ i = 75) => f = 58
              /\ (c = 80 /\ i = 50) => f = 65

\* the half case: (90 + 25) / 2 = 57.5 is reported as 58
C2_Witness ==
    /\ HasReport /\ HasAssessment /\ HasIntegrity
    /\ Assessment.riskScore = 90
    /\ IntegrityScore = 75
    /\ Report.fusionScore = Some(58)

\* C3: without an authenticity score (no media), fusionScore is the
\* contextual risk score, visualIntegrityScore and visualIntegrityWarning are
\* unset, and riskLevel is the Content Analyzer's level.
C3_NoAuthenticityPassThrough ==
    (HasReport /\ HasAssessment /\ ~HasIntegrity) =>
        /\ Report.fusionScore = Some(Assessment.riskScore)
        /\ Report.visualIntegrityScore = Null
        /\ Report.visualIntegrityWarning = Null
        /\ Report.riskLevel = Assessment.riskLevel

\* a caption-only request with score 90 is reported with fusion score 90
C3_Witness ==
    /\ HasReport /\ HasAssessment
    /\ call.file = Null
    /\ call.deepfake.st = "none"
    /\ Assessment.riskScore = 90
    /\ Assessment.riskLevel = "DANGEROUS"
    /\ Report.fusionScore = Some(90)
    /\ Report.riskLevel = "DANGEROUS"

\* C4: the Rebuttal Generator is invoked if and only if the final riskLevel
\* is CRITICAL, and a returned report carries a rebuttal exactly when its
\* riskLevel is CRITICAL.
C4_RebuttalIffCritical ==
    /\ RebuttalRequested <=> (Fused /\ FusedResult.riskLevel = "CRITICAL")
    /\ HasReport => (Report.rebuttal # Null <=> Report.riskLevel = "CRITICAL")

\* an escalated report carries a rebuttal
C4_Witness ==
    /\ HasReport /\ HasAssessment
    /\ Assessment.riskLevel = "CAUTION"
    /\ Report.riskLevel = "CRITICAL"
    /\ Report.rebuttal # Null
    /\ call.rebuttal.st = "fulfilled"

\* the Content Analyzer said CRITICAL and the escalation rule did not fire
CriticalFromAnalyzerOnly ==
    /\ Fused /\ HasAssessment
    /\ Assessment.riskLevel = "CRITICAL"
    /\ ~(HasIntegrity /\ IntegrityScore < 70 /\ Assessment.riskScore > 85)

\* C5 as stated: no rebuttal is requested when CRITICAL comes from the
\* Content Analyzer and the escalation rule did not fire.
C5_AsStated == CriticalFromAnalyzerOnly => ~RebuttalRequested

\* C5, amended: the rebuttal is requested whenever the final level is
\* CRITICAL, also when CRITICAL comes from the Content Analyzer and the
\* escalation rule did not fire.
C5_RebuttalForAnalyzerCritical ==
    CriticalFromAnalyzerOnly =>
        /\ RebuttalRequested
        /\ HasReport => Report.rebuttal # Null

\* a caption-only CRITICAL assessment with a low score gets its rebuttal
C5_Witness ==
    /\ HasReport /\ CriticalFromAnalyzerOnly
    /\ call.file = Null
    /\ Assessment.riskScore = 80
    /\ Report.rebuttal = Some("Three sentences of verified facts.")

\* C6: when the rebuttal call throws or returns no text, analyzeContent
\* still returns the full report, with rebuttal set to the fixed placeholder
\* of that failure; no error reaches the caller.
C6_RebuttalFailureAbsorbed ==
    (call.pc = "done" /\ RebuttalRequested) =>
        /\ HasReport
        /\ Report = [FusedResult EXCEPT !.rebuttal = Report.rebuttal]
        /\ [Report EXCEPT !.rebuttal = Null] =
               [Parsed(Assessment) EXCEPT
                   !.riskLevel = "CRITICAL",
                   !.fusionScore = Report.fusionScore,
                   !.visualIntegrityScore = call.deepfake.val,
                   !.visualIntegrityWarning = Report.visualIntegrityWarning]
        /\ call.rebuttal.st = "rejected" => Report.rebuttal = Some(REBUTTAL_FAILED)
        /\ (call.rebuttal.st = "fulfilled" /\ ~Truthy(Val(call.rebuttal.val)))
               => Report.rebuttal = Some(REBUTTAL_UNAVAILABLE)

\* the rebuttal call was rejected and the report came back with the placeholder
C6_Witness ==
    /\ HasReport
    /\ call.rebuttal.st = "rejected"
    /\ Report.rebuttal = Some(REBUTTAL_FAILED)
    /\ Report.riskLevel = "CRITICAL"

\* a primary call failed: a rejection, or an analyzer response without text
\* or that does not parse
PrimaryFailed ==
    \/ call.gemini.st = "rejected"
    \/ call.deepfake.st = "rejected"
    \/ /\ call.gemini.st = "fulfilled"
       /\ call.deepfake.st \in {"none", "fulfilled"}
       /\ ~(Val(call.gemini.val).text /\ Val(call.gemini.val).json)

\* C7: when the Content Analyzer or the Authenticity Checker call fails
\* (an empty or unparseable analyzer response included), the operation
\* fails with the one generic analysis-failed error whichever failure it
\* was, and no report is returned or shown.
C7_PrimaryFailureIsGeneric ==
    PrimaryFailed =>
        /\ call.pc = "done"
        /\ call.outcome = Thrown(Err(ERR_ANALYSIS_FAILED))
        /\ call.result = Null
        /\ ~RebuttalRequested
        /\ call.caller = "ui" =>
              /\ ~analysis.isLoading
              /\ analysis.result = Null
              /\ analysis.error \in {Some(ERR_ANALYSIS_FAILED), Null}

\* an unparseable analyzer response next to a finished deepfake check
C7_Witness ==
    /\ call.gemini.st = "fulfilled"
    /\ Val(call.gemini.val) = MalformedResponse
    /\ call.deepfake.st = "fulfilled"
    /\ call.caller = "ui"
    /\ analysis.error = Some(ERR_ANALYSIS_FAILED)
    /\ analysis.result = Null

\* C8: with media, the fusion step runs only after both the Content
\* Analyzer call and the Authenticity Checker call have completed.
C8_FusionAfterJoin ==
    /\ (Fused /\ call.file # Null) =>
          /\ call.gemini.st = "fulfilled"
          /\ call.deepfake.st = "fulfilled"
    /\ (call.pc = "awaitAll" /\ call.file # Null) =>
          /\ ~Fused
          /\ ~RebuttalRequested
          /\ "pending" \in {call.gemini.st, call.deepfake.st}

\* a fused report of a request with media
C8_Witness ==
    /\ Fused
    /\ call.file # Null
    /\ call.gemini.st = "fulfilled"
    /\ call.deepfake.st = "fulfilled"
    /\ FusedResult.visualIntegrityScore = call.deepfake.val

\* a caption of white space only
Blank(c) == \A i \in 1..Len(c) : SubSeq(c, i, i) = " "

\* the request of the invocation has no media and no non-blank caption
EmptyRequest == call.pc # "idle" /\ call.file = Null /\ Blank(call.caption)

NoCollaboratorCalled ==
    /\ call.gemini.st = "none"
    /\ call.deepfake.st = "none"
    /\ call.rebuttal.st = "none"

\* C9 as stated: an empty request is rejected with the no-input error and
\* no collaborator is invoked.
C9_AsStated ==
    EmptyRequest =>
        /\ call.outcome = Thrown(Err(ERR_NO_INPUT))
        /\ NoCollaboratorCalled

\* C9, amended: an empty request is rejected before any collaborator is
\* invoked, with the no-input error when the API key is configured and with
\* the missing-key error otherwise; caption-only and media-only requests are
\* never rejected for lack of input.
C9_EmptyRequestRejected ==
    /\ EmptyRequest =>
          /\ call.pc = "done"
          /\ call.outcome = Thrown(Err(IF apiKey THEN ERR_NO_INPUT ELSE ERR_API_KEY))
          /\ NoCollaboratorCalled
    /\ (call.pc # "idle" /\ ~EmptyRequest) =>
          /\ call.outcome # Thrown(Err(ERR_NO_INPUT))
          /\ (apiKey /\ call.pc # "reading" /\ call.outcome # Thrown(ErrorEvent))
                => call.gemini.st # "none"

\* a white-space caption without media, rejected for lack of input
C9_Witness ==
    /\ call.pc = "done"
    /\ call.file = Null
    /\ call.caption = " "
    /\ call.outcome = Thrown(Err(ERR_NO_INPUT))
    /\ NoCollaboratorCalled

\* within the size limit and of an image or video type
ValidMedia(f) ==
    /\ f.size <= 20 * 1024 * 1024
    /\ \/ (Len(f.type) >= 6 /\ SubSeq(f.type, 1, 6) = "image/")
       \/ (Len(f.type) >= 6 /\ SubSeq(f.type, 1, 6) = "video/")

\* C10: a file over 20 MiB or of a type that is neither image/* nor video/*
\* is rejected with an error and never becomes the selected file: the
\* selected file and the file handed to the analysis are absent or valid,
\* the step that shows an upload error leaves the selection as it was, and
\* every collaborator call is made for an absent or valid file.
C10_OnlyValidMediaSelected ==
    [][ /\ file' # Null => ValidMedia(Val(file'))
        /\ call'.file # Null => ValidMedia(Val(call'.file))
        /\ (file' # file /\ file' # Null) => uploadError' = Null
        /\ (uploadError' # Null /\ uploadError' # uploadError) =>
              /\ file' = file
              /\ uploadError' \in {Some(ERR_FILE_SIZE), Some(ERR_FILE_TYPE)} ]_vars

\* an oversized file was refused while a valid file is selected and under analysis
C10_Witness ==
    /\ file = Some([size |-> MAX_FILE_SIZE, type |-> "image/png"])
    /\ uploadError = Some(ERR_FILE_SIZE)
    /\ call.pc = "awaitAll"
    /\ call.file = file

\* C11: with an authenticity score, visualIntegrityScore is the integrity
\* score, and visualIntegrityWarning is "Potential AI Artifacts Detected"
\* when the score is below 70 and unset when it is 70 or more.
C11_IntegrityFields ==
    (Fused /\ HasIntegrity) =>
        /\ FusedResult.visualIntegrityScore = Some(IntegrityScore)
        /\ IntegrityScore < 70 =>
              FusedResult.visualIntegrityWarning = Some("Potential AI Artifacts Detected")
        /\ IntegrityScore >= 70 => FusedResult.visualIntegrityWarning = Null
        /\ HasReport =>
              /\ Report.visualIntegrityScore = FusedResult.visualIntegrityScore
              /\ Report.visualIntegrityWarning = FusedResult.visualIntegrityWarning

\* a report at the threshold: integrity 70 carries the score and no warning
C11_Witness ==
    /\ HasReport /\ HasIntegrity
    /\ IntegrityScore = 70
    /\ Report.visualIntegrityScore = Some(70)
    /\ Report.visualIntegrityWarning = Null

\* the context by priority, as the claim words it
ContextByPriority ==
    IF Len(Assessment.summary) > 0 THEN Assessment.summary
    ELSE IF Len(call.caption) > 0 THEN call.caption
    ELSE "The uploaded media content."

\* C12: the context passed to the Rebuttal Generator is the assessment's
\* summary if non-empty, else the original caption if non-empty, else the
\* fixed literal for the uploaded media content.
C12_RebuttalContextPriority ==
    /\ RebuttalRequested => (HasAssessment /\ call.context = Some(ContextByPriority))
    /\ ~RebuttalRequested => call.context = Null

\* no summary: the caption is the context
C12_Witness ==
    /\ RebuttalRequested /\ HasAssessment
    /\ Assessment.summary = ""
    /\ call.caption = "Share now!"
    /\ call.context = Some("Share now!")

\* the primary calls of the invocation have been started
PrimaryLaunched == call.gemini.st # "none"

\* C14: the Authenticity Checker runs if and only if media was submitted: a
\* request with a file starts both primary calls and its report has
\* visualIntegrityScore set; a caption-only request starts only the Content
\* Analyzer call and its report has no visualIntegrityScore.
C14_CheckerIffMedia ==
    /\ call.deepfake.st # "none" => PrimaryLaunched
    /\ PrimaryLaunched => (call.deepfake.st # "none" <=> call.file # Null)
    /\ HasReport =>
          /\ PrimaryLaunched
          /\ Report.visualIntegrityScore # Null <=> call.file # Null

\* a caption-only report: one call made, no integrity score
C14_Witness ==
    /\ HasReport
    /\ call.file = Null
    /\ call.caption = "Share now!"
    /\ call.gemini.st = "fulfilled"
    /\ call.deepfake.st = "none"
    /\ Report.visualIntegrityScore = Null

\* both primary calls are over and none failed
PrimaryComplete(c) ==
    /\ c.gemini.st = "fulfilled"
    /\ Val(c.gemini.val).text /\ Val(c.gemini.val).json
    /\ c.deepfake.st = (IF c.file # Null THEN "fulfilled" ELSE "none")

\* C15: the rebuttal call is issued only after the Content Analyzer call and
\* any Authenticity Checker call have completed and the final riskLevel is
\* decided, at most once per request, and never in a request whose primary
\* call failed.
C15_RebuttalAfterPrimaryOnce ==
    [][ LET was == call.rebuttal.st
            now == call'.rebuttal.st
        IN  /\ now # "none" =>
                  /\ PrimaryComplete(call')
                  /\ call'.result # Null
                  /\ Val(call'.result).riskLevel = "CRITICAL"
            /\ was # now =>
                  \/ was = "none" /\ now = "pending"
                  \/ was = "pending" /\ now \in {"fulfilled", "rejected"}
                  \/ now = "none" /\ call.pc = "done" ]_vars

\* the rebuttal call is out, after both primary calls of a request with media
C15_Witness ==
    /\ call.pc = "awaitRebuttal"
    /\ call.rebuttal.st = "pending"
    /\ call.file # Null
    /\ PrimaryComplete(call)

\* C16: summary, narrativeStrategy, emotionalTriggers, flags and the
\* contextual risk score of the returned report are those the Content
\* Analyzer returned, on every path.
C16_OtherFieldsCopied ==
    HasReport =>
        /\ HasAssessment
        /\ Report.riskScore = Assessment.riskScore
        /\ Report.summary = Assessment.summary
        /\ Report.narrativeStrategy = Assessment.narrativeStrategy
        /\ Report.emotionalTriggers = Assessment.emotionalTriggers
        /\ Report.flags = Assessment.flags

\* an escalated report with a rebuttal that kept the analyzer's content
C16_Witness ==
    /\ HasReport /\ HasAssessment /\ HasIntegrity
    /\ Assessment.riskLevel = "SUSPICIOUS"
    /\ Report.riskLevel = "CRITICAL"
    /\ Report.rebuttal # Null
    /\ Report.narrativeStrategy = Some("To demoralize the opposition")
    /\ Report.emotionalTriggers = Some(<<"fear", "outrage">>)
    /\ Len(Report.flags) = 1

\* how far an invocation has come
Progress(pc) ==
    CASE pc = "idle" -> 0
      [] pc = "reading" -> 1
      [] pc = "awaitAll" -> 2
      [] pc = "awaitRebuttal" -> 3
      [] OTHER -> 4

InFlight(c) == c.pc \in {"reading", "awaitAll", "awaitRebuttal"}

\* C17: after any sequence of scan, completion, failure and dismiss events:
\* while isLoading is true error and result are null; error and result are
\* never both non-null; no scan starts while one is loading, so the one
\* analysis in flight keeps its request and only moves forward; and the
\* scan leaves the loading state exactly when its analysis call settles,
\* with the returned report or with the error.
C17_AnalysisStateConsistent ==
    [][ /\ analysis'.isLoading => (analysis'.error = Null /\ analysis'.result = Null)
        /\ ~(analysis'.error # Null /\ analysis'.result # Null)
        /\ analysis'.isLoading <=> InFlight(call')
        /\ analysis.isLoading =>
              /\ call'.file = call.file
              /\ call'.caption = call.caption
              /\ Progress(call'.pc) >= Progress(call.pc)
        /\ (analysis.isLoading /\ ~analysis'.isLoading) =>
              /\ call'.pc = "done"
              /\ \/ /\ call'.outcome.kind = "returned"
                    /\ analysis'.result = call'.outcome.value
                    /\ analysis'.error = Null
                 \/ /\ call'.outcome.kind = "thrown"
                    /\ analysis'.result = Null
                    /\ analysis'.error # Null ]_vars

\* an analysis in flight whose inputs the user has meanwhile changed
C17_Witness ==
    /\ analysis.isLoading
    /\ call.pc = "awaitRebuttal"
    /\ call.file # Null
    /\ file = Null
    /\ caption # call.caption

====
